---- MODULE Spec2Model ----
(***************************************************************************)
(* Model of scripts/allure_enrich_steps.py: the JUnit-to-Allure pipeline    *)
(* junit_to_allure_results and the flow parser steps_from_flow_yaml.        *)
(*                                                                         *)
(* Python strings are sequences of one-character strings, so that strip,    *)
(* lower, substring tests and the regular expressions are computed and not  *)
(* assumed.  An optional value (None or a string) is a record               *)
(* [some |-> BOOLEAN, v |-> string].  Durations are counted in ticks,       *)
(* TicksPerMs ticks to the millisecond, so that int(time_sec * 1000)        *)
(* truncates.                                                               *)
(***************************************************************************)
EXTENDS Integers, Sequences, FiniteSets, TLC

VARIABLES
  flow_file,   \* steps_from_flow_yaml: the file at flow_path, [exists, lines]
  flow_ret,    \* steps_from_flow_yaml: <<>> before the call, <<steps>> after it
  tc_in,       \* collector: one <testcase> element
  tc_ret,      \* collector: <<>> before, <<collected case>> after
  corr_in,     \* correlator: [steps, status, details]
  corr_ret,    \* correlator: <<>> before, <<failed_step_index>> after
  fs_reports,  \* allure-results/<report>.xml: "absent", "malformed" or a document
  fs_flows,    \* .maestro/flows/<flow>: [exists, lines]
  fs_shots,    \* allure-results/maestro-*: [exists, files]
  input,       \* the report files as they were when the run started
  pc,          \* position of junit_to_allure_results
  ri,          \* index into REPORT_TO_FLOW_ORDER of the collecting loop
  cases,       \* the list `cases`
  ci,          \* index into cases of the emitting loop
  base_start_ms,
  now_ms,
  results,     \* the <uid>-result.json files written, in order
  attachments, \* the <uuid>-attachment.<ext> files written, in order
  next_uuid    \* uuid.uuid4() draws fresh identifiers

fvars == <<flow_file, flow_ret>>
cvars == <<tc_in, tc_ret>>
kvars == <<corr_in, corr_ret>>
pvars == <<fs_reports, fs_flows, fs_shots, input, pc, ri, cases, ci,
           base_start_ms, now_ms, results, attachments, next_uuid>>
vars == <<fvars, cvars, kvars, pvars>>

----------------------------------------------------------------------------
(* Bounds of the model *)

MaxCmds == 3        \* commands of a generated flow file
MaxParts == 2       \* fragments of a generated failure message
MaxSteps == 2       \* steps handed to the correlator on its own
TicksPerMs == 2     \* resolution of the time attribute below one millisecond

----------------------------------------------------------------------------
(* Python str operations *)

WS == {" ", "\t", "\n"}
Quotes == {"\"", "'"}
Lower == {"a","b","c","d","e","f","g","h","i","j","k","l","m",
          "n","o","p","q","r","s","t","u","v","w","x","y","z"}
Upper == {"A","B","C","D","E","F","G","H","I","J","K","L","M",
          "N","O","P","Q","R","S","T","U","V","W","X","Y","Z"}
Digits == {"0","1","2","3","4","5","6","7","8","9"}
WordChars == Lower \cup Upper \cup Digits \cup {"_"}

None == [some |-> FALSE, v |-> <<>>]
Some(s) == [some |-> TRUE, v |-> s]

MinOf(S) == CHOOSE x \in S : \A y \in S : x <= y
MaxOf(S) == CHOOSE x \in S : \A y \in S : x >= y

Take(s, n) == SubSeq(s, 1, n)
Drop(s, n) == SubSeq(s, n + 1, Len(s))

\* number of consecutive characters of s from position p that are in C
SpanIn(s, p, C) ==
  LET stops == {q \in p..Len(s) : s[q] \notin C}
  IN IF p > Len(s) THEN 0
     ELSE IF stops = {} THEN Len(s) - p + 1 ELSE MinOf(stops) - p

\* number of consecutive characters of s from position p that are not in C
SpanNotIn(s, p, C) ==
  LET stops == {q \in p..Len(s) : s[q] \in C}
  IN IF p > Len(s) THEN 0
     ELSE IF stops = {} THEN Len(s) - p + 1 ELSE MinOf(stops) - p

LStripSet(s, C) == Drop(s, SpanIn(s, 1, C))
RStripSet(s, C) ==
  LET keep == {q \in 1..Len(s) : s[q] \notin C}
  IN IF keep = {} THEN <<>> ELSE Take(s, MaxOf(keep))
RStrip(s) == RStripSet(s, WS)
StripSet(s, C) == LStripSet(RStripSet(s, C), C)
Strip(s) == StripSet(s, WS)

IsAt(sub, s, p) ==
  /\ p >= 1
  /\ p + Len(sub) - 1 <= Len(s)
  /\ SubSeq(s, p, p + Len(sub) - 1) = sub
StartsWith(s, sub) == IsAt(sub, s, 1)
\* sub in s
Contains(sub, s) == \E p \in 1..(Len(s) - Len(sub) + 1) : IsAt(sub, s, p)

LowerChar(c) ==
  IF c \in Upper
  THEN CHOOSE l \in Lower :
         \E k \in 1..26 :
           /\ <<"A","B","C","D","E","F","G","H","I","J","K","L","M","N","O","P","Q","R","S","T","U","V","W","X","Y","Z">>[k] = c
           /\ <<"a","b","c","d","e","f","g","h","i","j","k","l","m","n","o","p","q","r","s","t","u","v","w","x","y","z">>[k] = l
  ELSE c
StrLower(s) == [k \in 1..Len(s) |-> LowerChar(s[k])]

RECURSIVE ReplaceFrom(_, _, _, _)
ReplaceFrom(s, p, old, new) ==
  IF p > Len(s) THEN <<>>
  ELSE IF IsAt(old, s, p) THEN new \o ReplaceFrom(s, p + Len(old), old, new)
  ELSE <<s[p]>> \o ReplaceFrom(s, p + 1, old, new)
\* s.replace(old, new), old non-empty
Replace(s, old, new) == ReplaceFrom(s, 1, old, new)

\* a or b, for strings
OrElse(a, b) == IF a /= <<>> THEN a ELSE b

----------------------------------------------------------------------------
(* The regular expressions.  A search returns <<>> for no match and         *)
(* <<group>> for a match.                                                   *)

\* re.match of ^\s*-\s+(\w+)\s*:\s*(.*)$ on s: <<[cmd, rest]>>, rest stripped
CmdMatch(s) ==
  LET a == 1 + SpanIn(s, 1, WS)
      w == SpanIn(s, a + 1, WS)
      b == a + 1 + w
      n == SpanIn(s, b, WordChars)
      c == b + n + SpanIn(s, b + n, WS)
      d == c + 1 + SpanIn(s, c + 1, WS)
  IN IF ~(a <= Len(s) /\ s[a] = "-") THEN <<>>
     ELSE IF w = 0 \/ n = 0 THEN <<>>
     ELSE IF ~(c <= Len(s) /\ s[c] = ":") THEN <<>>
     ELSE IF "\n" \in {s[q] : q \in d..Len(s)} THEN <<>>
     ELSE << [cmd |-> SubSeq(s, b, b + n - 1), rest |-> Strip(Drop(s, d - 1))] >>

\* r"id:\s*[\"']?([^\"'\s]+)" anchored at p
IdMatchAt(s, p) ==
  LET a == p + 3 + SpanIn(s, p + 3, WS)
      b == IF a <= Len(s) /\ s[a] \in Quotes THEN a + 1 ELSE a
      n == SpanNotIn(s, b, Quotes \cup WS)
  IN IF IsAt(<<"i","d",":">>, s, p) /\ n > 0 THEN <<SubSeq(s, b, b + n - 1)>> ELSE <<>>

\* r"text:\s*[\"']?([^\"'\n]+)" with \s* taking k characters, k counting down
\* as the backtracking does: the class [^\"'\n] accepts a blank
RECURSIVE TextTry(_, _, _)
TextTry(s, q, k) ==
  LET a == q + k
      nq == SpanNotIn(s, a + 1, Quotes \cup {"\n"})
      n == SpanNotIn(s, a, Quotes \cup {"\n"})
  IN IF a <= Len(s) /\ s[a] \in Quotes /\ nq > 0 THEN <<SubSeq(s, a + 1, a + nq)>>
     ELSE IF n > 0 THEN <<SubSeq(s, a, a + n - 1)>>
     ELSE IF k = 0 THEN <<>>
     ELSE TextTry(s, q, k - 1)
TextMatchAt(s, p) ==
  IF IsAt(<<"t","e","x","t",":">>, s, p) THEN TextTry(s, p + 5, SpanIn(s, p + 5, WS)) ELSE <<>>

\* r"file:\s*\.\./subflows/(\S+)" anchored at p
SubflowMatchAt(s, p) ==
  LET a == p + 5 + SpanIn(s, p + 5, WS)
      b == a + Len(<<".",".","/","s","u","b","f","l","o","w","s","/">>)
      n == SpanNotIn(s, b, WS)
  IN IF IsAt(<<"f","i","l","e",":">>, s, p) /\ IsAt(<<".",".","/","s","u","b","f","l","o","w","s","/">>, s, a) /\ n > 0
     THEN <<SubSeq(s, b, b + n - 1)>> ELSE <<>>

\* re.search: the match at the leftmost position that has one
SearchId(s) ==
  LET hits == {p \in 1..Len(s) : IdMatchAt(s, p) /= <<>>}
  IN IF hits = {} THEN <<>> ELSE IdMatchAt(s, MinOf(hits))
SearchText(s) ==
  LET hits == {p \in 1..Len(s) : TextMatchAt(s, p) /= <<>>}
  IN IF hits = {} THEN <<>> ELSE TextMatchAt(s, MinOf(hits))
SearchSubflow(s) ==
  LET hits == {p \in 1..Len(s) : SubflowMatchAt(s, p) /= <<>>}
  IN IF hits = {} THEN <<>> ELSE SubflowMatchAt(s, MinOf(hits))

\* re.findall(r'"([^"]+)"', s) from position p: non-overlapping, left to right
RECURSIVE FindAllFrom(_, _)
FindAllFrom(s, p) ==
  LET n == SpanNotIn(s, p + 1, {"\""})
  IN IF p > Len(s) THEN <<>>
     ELSE IF s[p] = "\"" /\ n > 0 /\ p + 1 + n <= Len(s)
     THEN <<SubSeq(s, p + 1, p + n)>> \o FindAllFrom(s, p + n + 2)
     ELSE FindAllFrom(s, p + 1)
FindAllQuoted(s) == FindAllFrom(s, 1)

----------------------------------------------------------------------------
(* steps_from_flow_yaml *)

\* runFlow: the following indented lines, from line j, for a subflow file
RECURSIVE RunFlowSubname(_, _)
RunFlowSubname(lines, j) ==
  IF j > Len(lines) \/ ~(lines[j] /= <<>> /\ lines[j][1] \in {" ", "\t"})
  THEN <<"s","u","b","f","l","o","w">>
  ELSE IF SearchSubflow(lines[j]) /= <<>>
  THEN Replace(SearchSubflow(lines[j])[1], <<".","y","a","m","l">>, <<>>)
  ELSE RunFlowSubname(lines, j + 1)

\* mutant: tapOn takes the id of the next line when it has no inline value
TapDetail_NextLine(rest, lines, i) ==
  IF rest = <<>> /\ i < Len(lines) /\ SearchId(lines[i + 1]) /= <<>>
  THEN SearchId(lines[i + 1])[1]
  ELSE IF Contains(<<"i","d",":">>, rest) /\ SearchId(rest) /= <<>> THEN SearchId(rest)[1]
  ELSE rest

\* tapOn: only the inline value is looked at
TapDetail(rest, lines, i) ==
  IF Contains(<<"i","d",":">>, rest) /\ SearchId(rest) /= <<>> THEN SearchId(rest)[1] ELSE rest

\* assertVisible without inline value: lines j..last for an id: or a text:
RECURSIVE AssertLookahead(_, _, _)
AssertLookahead(lines, j, last) ==
  IF j > last THEN <<>>
  ELSE IF SearchId(lines[j]) /= <<>> THEN SearchId(lines[j])[1]
  ELSE IF Contains(<<"t","e","x","t",":">>, lines[j])
  THEN StripSet(IF SearchText(lines[j]) /= <<>> THEN Strip(SearchText(lines[j])[1]) ELSE <<>>,
                {"\""})
  ELSE AssertLookahead(lines, j + 1, last)

\* assertVisible: the detail before it is normalised
AssertVisibleDetail(rest, lines, i) ==
  IF rest = <<>> /\ i < Len(lines)
  THEN AssertLookahead(lines, i + 1, MinOf({i + 5, Len(lines)}))
  ELSE rest

AssertVisibleNormalised(detail) ==
  IF Contains(<<"i","d",":">>, detail)
  THEN (IF SearchId(detail) /= <<>> THEN SearchId(detail)[1] ELSE detail)
  ELSE IF Contains(<<"t","e","x","t",":">>, detail)
  THEN (IF SearchText(detail) /= <<>> THEN Strip(SearchText(detail)[1]) ELSE detail)
  ELSE detail

\* the step of the command cmd with inline value rest, found on line i
StepOfCommand(cmd, rest, lines, i) ==
  IF cmd = <<"r","u","n","F","l","o","w">> THEN <<"R","u","n"," ","f","l","o","w",":"," ">> \o RunFlowSubname(lines, i + 1)
  ELSE IF cmd = <<"l","a","u","n","c","h","A","p","p">> THEN <<"L","a","u","n","c","h"," ","a","p","p"," ","(","c","l","e","a","r"," ","s","t","a","t","e",")">>
  ELSE IF cmd = <<"t","a","p","O","n">>
  THEN (LET detail == TapDetail(rest, lines, i)
        IN IF detail /= <<>> THEN <<"T","a","p",":"," ">> \o detail ELSE <<"T","a","p">>)
  ELSE IF cmd = <<"a","s","s","e","r","t","V","i","s","i","b","l","e">>
  THEN (LET detail == AssertVisibleNormalised(AssertVisibleDetail(rest, lines, i))
        IN IF detail /= <<>> THEN <<"A","s","s","e","r","t"," ","v","i","s","i","b","l","e",":"," ">> \o detail ELSE <<"A","s","s","e","r","t"," ","v","i","s","i","b","l","e">>)
  ELSE cmd \o (IF rest /= <<>> THEN <<" ","(">> \o rest \o <<")">> ELSE <<>>)

\* the while loop over the lines, at line i
RECURSIVE ParseLines(_, _, _, _)
ParseLines(lines, i, in_steps, steps) ==
  IF i > Len(lines) THEN steps
  ELSE
    LET line_stripped == RStrip(lines[i])
        st == Strip(line_stripped)
        m == CmdMatch(line_stripped)
    IN IF st = <<"-","-","-">> THEN ParseLines(lines, i + 1, TRUE, steps)
       ELSE IF ~in_steps THEN ParseLines(lines, i + 1, FALSE, steps)
       ELSE IF StartsWith(st, <<"#">>) /\ st /= <<"#">>
       THEN ParseLines(lines, i + 1, TRUE,
              Append(steps, OrElse(Strip(LStripSet(st, {"#"})), <<"C","o","m","m","e","n","t">>)))
       ELSE IF m /= <<>>
       THEN ParseLines(lines, i + 1, TRUE,
              Append(steps, StepOfCommand(m[1].cmd, m[1].rest, lines, i)))
       ELSE ParseLines(lines, i + 1, TRUE, steps)

\* flow is the file at flow_path: [exists, lines], lines as splitlines gives them
steps_from_flow_yaml(flow) ==
  IF ~flow.exists THEN <<>> ELSE ParseLines(flow.lines, 1, FALSE, <<>>)

----------------------------------------------------------------------------
(* Flow files the parser is run on: an optional metadata line, the         *)
(* separator, and up to MaxCmds blocks, a block being a command line with  *)
(* the lines that belong to it.                                            *)

NoFile == [exists |-> FALSE, lines |-> <<>>]
File(lines) == [exists |-> TRUE, lines |-> lines]

\* "    <key>: "<value>"", the field of a command on its own line
FieldLine(key, value) == <<" "," "," "," ">> \o key \o <<":"," ","\"">> \o value \o <<"\"">>

\* the fields the generated files put on a line of their own
Fields == { [key |-> <<"i","d">>, value |-> <<"l","o","g","i","n","-","b","u","t","t","o","n">>],
            [key |-> <<"t","e","x","t">>, value |-> <<"W","e","l","c","o","m","e">>] }

BlockPool ==
  { << <<"-"," ","l","a","u","n","c","h","A","p","p",":">> >>,
    << <<"-"," ","t","a","p","O","n",":">> >>,
    << <<"-"," ","t","a","p","O","n",":"," ","\"","S","a","v","e","\"">> >>,
    << <<"-"," ","t","a","p","O","n",":"," ","i","d",":"," ","'","s","a","v","e","-","b","t","n","'">> >>,
    << <<"-"," ","a","s","s","e","r","t","V","i","s","i","b","l","e",":">> >>,
    << <<"-"," ","a","s","s","e","r","t","V","i","s","i","b","l","e",":"," ","\"","D","o","n","e","\"">> >>,
    << <<"-"," ","r","u","n","F","l","o","w",":">>, <<" "," "," "," ","f","i","l","e",":"," ",".",".","/","s","u","b","f","l","o","w","s","/","l","o","g","i","n",".","y","a","m","l">> >>,
    << <<"#"," ","O","p","e","n"," ","t","h","e"," ","f","o","r","m">> >>,
    << <<"-"," ","i","n","p","u","t","T","e","x","t",":"," ","h","e","l","l","o">> >>,
    << <<" "," "," "," ","o","p","t","i","o","n","a","l",":"," ","t","r","u","e">> >> }
  \cup { << FieldLine(f.key, f.value) >> : f \in Fields }

RECURSIVE Flatten(_)
Flatten(blocks) == IF blocks = <<>> THEN <<>> ELSE Head(blocks) \o Flatten(Tail(blocks))

BlockSeqs == UNION { [1..n -> BlockPool] : n \in 0..MaxCmds }

FlowFiles ==
  { NoFile }
  \cup { File(pre \o Flatten(bs)) :
           pre \in { << <<"-","-","-">> >>, << <<"a","p","p","I","d",":"," ","c","o","m",".","e","x","a","m","p","l","e",".","a","p","p">>, <<"-","-","-">> >>, <<>> },
           bs \in BlockSeqs }

\* the flow of the extraction scenario
ScenarioFlow ==
  File(<< <<"a","p","p","I","d",":"," ","c","o","m",".","e","x","a","m","p","l","e",".","a","p","p">>, <<"-","-","-">>,
          <<"-"," ","l","a","u","n","c","h","A","p","p",":">>,
          <<"-"," ","t","a","p","O","n",":">>, FieldLine(<<"i","d">>, <<"l","o","g","i","n","-","b","u","t","t","o","n">>),
          <<"-"," ","a","s","s","e","r","t","V","i","s","i","b","l","e",":">>, FieldLine(<<"t","e","x","t">>, <<"W","e","l","c","o","m","e">>) >>)

FlowInit ==
  /\ flow_file \in FlowFiles \cup {ScenarioFlow}
  /\ flow_ret = <<>>

CallStepsFromFlowYaml ==
  /\ flow_ret = <<>>
  /\ flow_ret' = << steps_from_flow_yaml(flow_file) >>
  /\ UNCHANGED <<flow_file, cvars, kvars, pvars>>

----------------------------------------------------------------------------
(* Collecting one <testcase> element (junit_to_allure_results, part 1)     *)

REPORT_TO_FLOW_ORDER ==
  << [report |-> "assets_report", flow |-> "assets_test.yaml"],
     [report |-> "dashboard_report", flow |-> "dashboard_test.yaml"],
     [report |-> "profile_report", flow |-> "profile_test.yaml"] >>

REPORT_TO_MAESTRO_DIR ==
  [r \in {"dashboard_report", "assets_report", "profile_report"} |->
     IF r = "dashboard_report" THEN "maestro-dashboard"
     ELSE IF r = "assets_report" THEN "maestro-assets" ELSE "maestro-profile"]

ReportNames == {REPORT_TO_FLOW_ORDER[k].report : k \in 1..Len(REPORT_TO_FLOW_ORDER)}

\* o.get(...) or default
OptOr(o, default) == IF o.some /\ o.v /= <<>> THEN o.v ELSE default

NoNode == [present |-> FALSE, message |-> None, text |-> None]
Node(message, text) == [present |-> TRUE, message |-> message, text |-> text]

NoDetails == [some |-> FALSE, message |-> <<>>, trace |-> <<>>]

\* msg, body and the status_details dict of one <failure> or <error> node
NodeDetails(node) ==
  LET msg == Strip(OptOr(node.message, <<>>))
      body == Strip(OptOr(node.text, <<>>))
  IN [some |-> TRUE,
      message |-> OrElse(msg, OrElse(body, <<"T","e","s","t"," ","f","a","i","l","e","d">>)),
      trace |-> IF body /= msg THEN body ELSE <<>>]

\* for tag in ("failure", "error"): the first of the two that is present
StatusDetails(tc) ==
  IF tc.failure.present THEN NodeDetails(tc.failure)
  ELSE IF tc.error.present THEN NodeDetails(tc.error)
  ELSE NoDetails

DeriveStatus(tc, has_failure_node) ==
  LET status == StrLower(OptOr(tc.status, <<"S","U","C","C","E","S","S">>))
  IN IF status = <<"s","u","c","c","e","s","s">> THEN "passed"
     ELSE IF status = <<"f","a","i","l","u","r","e">> THEN "failed"
     ELSE IF has_failure_node THEN "failed"
     ELSE "passed"

\* the time attribute: absent, a number (in ticks) or text float() rejects
NoTime == [some |-> FALSE, ok |-> TRUE, ticks |-> 0]
Time(t) == [some |-> TRUE, ok |-> TRUE, ticks |-> t]
BadTime == [some |-> TRUE, ok |-> FALSE, ticks |-> 0]

\* float(tc.get("time", 0)) raises ValueError
TimeRaises(tc) == tc.time.some /\ ~tc.time.ok

\* the tuple appended to cases for tc
CollectCase(report_name, flow_name, tc) ==
  [report_name |-> report_name,
   flow_name |-> flow_name,
   name |-> OptOr(tc.name, OptOr(tc.id, <<"U","n","n","a","m","e","d">>)),
   status |-> DeriveStatus(tc, StatusDetails(tc).some),
   time_sec |-> IF tc.time.some THEN tc.time.ticks ELSE 0,
   status_details |-> StatusDetails(tc)]

\* mutant: round() in place of int()
Millis_Rounded(ticks) == (2 * ticks + TicksPerMs) \div (2 * TicksPerMs)

\* int(time_sec * 1000), time_sec >= 0 in ticks
Millis(ticks) == ticks \div TicksPerMs

----------------------------------------------------------------------------
(* The failure correlator (junit_to_allure_results, lines 202-216).        *)
(* Step indices are Python's: the first step has index 0.                  *)

\* mutant: the scan of the steps goes on after a hit, so the last hit wins
FirstStepWith_Last(part, step_names, idx) ==
  LET hits == {j \in idx..(Len(step_names) - 1) : Contains(part, step_names[j + 1])}
  IN IF hits = {} THEN -1 ELSE MaxOf(hits)

\* for idx, step_name in enumerate(step_names): the first hit from idx, or -1
RECURSIVE FirstStepWith(_, _, _)
FirstStepWith(part, step_names, idx) ==
  IF idx >= Len(step_names) THEN -1
  ELSE IF Contains(part, step_names[idx + 1]) THEN idx
  ELSE FirstStepWith(part, step_names, idx + 1)

\* for part in parts[k..]: the index the loop leaves in failed_step_index
RECURSIVE ScanParts(_, _, _, _)
ScanParts(parts, k, step_names, default) ==
  IF k > Len(parts) THEN default
  ELSE IF Len(parts[k]) > 2 /\ FirstStepWith(parts[k], step_names, 0) >= 0
  THEN FirstStepWith(parts[k], step_names, 0)
  ELSE ScanParts(parts, k + 1, step_names, default)

\* message + " " + trace
CorrelatedText(status_details) == status_details.message \o <<" ">> \o status_details.trace

FailedStepIndex(step_names, status, status_details) ==
  IF status = "failed" /\ status_details.some
  THEN ScanParts(FindAllQuoted(CorrelatedText(status_details)), 1, step_names,
                 Len(step_names) - 1)
  ELSE Len(step_names) - 1

----------------------------------------------------------------------------
(* Screenshots *)

IMAGE_EXTENSIONS == { <<".","p","n","g">>, <<".","j","p","g">>, <<".","j","p","e","g">>, <<".","g","i","f">>, <<".","b","m","p">>, <<".","t","i","f","f">>, <<".","w","e","b","p">> }

IMAGE_MIME(ext) ==
  IF ext = <<".","p","n","g">> THEN "image/png"
  ELSE IF ext \in { <<".","j","p","g">>, <<".","j","p","e","g">> } THEN "image/jpeg"
  ELSE IF ext = <<".","g","i","f">> THEN "image/gif"
  ELSE IF ext = <<".","b","m","p">> THEN "image/bmp"
  ELSE IF ext = <<".","t","i","f","f">> THEN "image/tiff"
  ELSE IF ext = <<".","w","e","b","p">> THEN "image/webp"
  ELSE "image/png"

NoDir == [exists |-> FALSE, files |-> <<>>]
Dir(files) == [exists |-> TRUE, files |-> files]

\* the loop over rglob("*") from file k on, files in the order rglob yields them
RECURSIVE LatestFrom(_, _, _, _)
LatestFrom(files, k, latest, latest_mtime) ==
  IF k > Len(files) THEN latest
  ELSE IF StrLower(files[k].suffix) \in IMAGE_EXTENSIONS /\ files[k].mtime > latest_mtime
  THEN LatestFrom(files, k + 1, <<files[k]>>, files[k].mtime)
  ELSE LatestFrom(files, k + 1, latest, latest_mtime)

\* <<>> for None, <<file>> otherwise
find_latest_screenshot(maestro_dir) ==
  IF ~maestro_dir.exists THEN <<>> ELSE LatestFrom(maestro_dir.files, 1, <<>>, 0)

\* <<>> for None, else <<the attachment file written and its mime type>>
copy_screenshot_to_allure(maestro_dir, attachment_uuid) ==
  LET src == find_latest_screenshot(maestro_dir)
  IN IF src = <<>> THEN <<>>
     ELSE << [uuid |-> attachment_uuid,
              ext |-> StrLower(src[1].suffix),
              type |-> IMAGE_MIME(StrLower(src[1].suffix)),
              copied |-> src[1].name] >>

----------------------------------------------------------------------------
(* Emitting one record (junit_to_allure_results, part 2) *)

\* mutant: the steps after the failed one are not marked skipped
StepObject_NoSkip(i, step_name, status, status_details, failed_step_index, start_ms, step_duration_ms) ==
  [name |-> step_name,
   status |-> IF status = "failed" /\ i = failed_step_index THEN "failed" ELSE "passed",
   start |-> start_ms + i * step_duration_ms,
   stop |-> start_ms + i * step_duration_ms + step_duration_ms,
   statusDetails |-> IF status = "failed" /\ i = failed_step_index /\ status_details.some
                     THEN status_details ELSE NoDetails,
   attachments |-> <<>>]

\* the step object of step i (from 0) of a test with num_steps steps
StepObject(i, step_name, status, status_details, failed_step_index, start_ms, step_duration_ms) ==
  [name |-> step_name,
   status |-> IF status /= "failed" THEN "passed"
              ELSE IF i = failed_step_index THEN "failed"
              ELSE IF i > failed_step_index THEN "skipped"
              ELSE "passed",
   start |-> start_ms + i * step_duration_ms,
   stop |-> start_ms + i * step_duration_ms + step_duration_ms,
   statusDetails |-> IF status = "failed" /\ i = failed_step_index /\ status_details.some
                     THEN status_details ELSE NoDetails,
   attachments |-> <<>>]

\* mutant: the step duration rounded up
StepDuration_RoundedUp(ticks, num_steps) ==
  (ticks + TicksPerMs * (IF num_steps > 1 THEN num_steps ELSE 1) - 1)
    \div (TicksPerMs * (IF num_steps > 1 THEN num_steps ELSE 1))

\* int(time_sec * 1000 / max(len(step_names), 1))
StepDuration(ticks, num_steps) ==
  ticks \div (TicksPerMs * (IF num_steps > 1 THEN num_steps ELSE 1))

\* the loop of lines 220-234
StepObjects(step_names, case, failed_step_index, start_ms) ==
  LET step_duration_ms == StepDuration(case.time_sec, Len(step_names))
  IN [k \in 1..Len(step_names) |->
        StepObject(k - 1, step_names[k], case.status, case.status_details,
                   failed_step_index, start_ms, step_duration_ms)]

\* step_objects[failed_step_index]["attachments"] = [att]; -1 is the last one
WithStepAttachment(step_objects, failed_step_index, att) ==
  LET k == IF failed_step_index < 0
           THEN Len(step_objects) + 1 + failed_step_index
           ELSE failed_step_index + 1
  IN [step_objects EXCEPT ![k].attachments = <<att>>]

\* step_objects[failed_step_index] raises IndexError
StepIndexRaises(step_objects, failed_step_index) ==
  LET k == IF failed_step_index < 0
           THEN Len(step_objects) + 1 + failed_step_index
           ELSE failed_step_index + 1
  IN k \notin 1..Len(step_objects)

\* whether the failed case attempts the screenshot attachment
AttemptsScreenshot(case) ==
  case.status = "failed" /\ case.report_name \in DOMAIN REPORT_TO_MAESTRO_DIR

\* the attachment to reference, <<>> for none
ScreenshotOf(case, shots, att_uuid) ==
  IF AttemptsScreenshot(case)
  THEN copy_screenshot_to_allure(shots[REPORT_TO_MAESTRO_DIR[case.report_name]], att_uuid)
  ELSE <<>>

\* the guard of line 262
StepAttachmentGuard(failed_step_index, step_objects) ==
  failed_step_index < Len(step_objects)

ResultRecord(case, uid, start_ms, stop_ms, step_objects, att) ==
  [uuid |-> uid,
   historyId |-> <<"T","e","s","t"," ","S","u","i","t","e",":">> \o case.name \o <<"#">> \o case.name,
   fullName |-> <<"T","e","s","t"," ","S","u","i","t","e",":">> \o case.name,
   name |-> case.name,
   status |-> case.status,
   start |-> start_ms,
   stop |-> stop_ms,
   labels |-> << [name |-> "suite", value |-> <<"T","e","s","t"," ","S","u","i","t","e">>],
                 [name |-> "testClass", value |-> case.name],
                 [name |-> "package", value |-> case.name] >>,
   steps |-> step_objects,
   statusDetails |-> IF case.status = "failed" /\ case.status_details.some
                     THEN case.status_details ELSE NoDetails,
   attachments |-> att]

----------------------------------------------------------------------------
(* Report files *)

Absent == [kind |-> "absent", tag |-> "", testcases |-> <<>>, suites |-> <<>>]
Malformed == [kind |-> "malformed", tag |-> "", testcases |-> <<>>, suites |-> <<>>]
\* a parsed document: the root's tag, its <testcase> children, and the
\* <testcase> children of each <testsuite> below it, in document order
Xml(tag, testcases, suites) ==
  [kind |-> "xml", tag |-> tag, testcases |-> testcases, suites |-> suites]

\* mutant: only the first <testsuite> of a <testsuites> document is read
TestcasesOf_FirstSuiteOnly(doc) ==
  IF doc.tag = "testsuites"
  THEN (IF doc.suites = <<>> THEN <<>> ELSE Head(doc.suites))
  ELSE doc.testcases

\* suites = root.findall(".//testsuite") if root.tag == "testsuites" else [root],
\* then suite.findall("testcase") of each
TestcasesOf(doc) == IF doc.tag = "testsuites" THEN Flatten(doc.suites) ELSE doc.testcases

Testcase(name, id, status, time, failure, error) ==
  [name |-> name, id |-> id, status |-> status, time |-> time,
   failure |-> failure, error |-> error]

----------------------------------------------------------------------------
(* junit_to_allure_results *)

\* mutant: the report file is deleted whether or not it was read
ReportsAfterCollect_Always(reports, report_name, raised) ==
  [reports EXCEPT ![report_name] = Absent]

\* the report files after the iteration for report_name: xml_path.unlink() is
\* reached when neither ET.parse nor float() has raised
ReportsAfterCollect(reports, report_name, raised) ==
  IF raised THEN reports ELSE [reports EXCEPT ![report_name] = Absent]

\* one iteration of the loop over REPORT_TO_FLOW_ORDER
CollectReport ==
  /\ pc = "collect"
  /\ ri <= Len(REPORT_TO_FLOW_ORDER)
  /\ LET e == REPORT_TO_FLOW_ORDER[ri]
         doc == fs_reports[e.report]
         tcs == TestcasesOf(doc)
         bad == {k \in 1..Len(tcs) : TimeRaises(tcs[k])}
         upto == IF bad = {} THEN Len(tcs) ELSE MinOf(bad) - 1
         collected == [k \in 1..upto |-> CollectCase(e.report, e.flow, tcs[k])]
     IN IF doc.kind = "absent"
        THEN /\ ri' = ri + 1
             /\ UNCHANGED <<pc, cases, fs_reports>>
        ELSE IF doc.kind = "malformed"
        THEN /\ pc' = "ParseError"
             /\ fs_reports' = ReportsAfterCollect(fs_reports, e.report, TRUE)
             /\ UNCHANGED <<ri, cases>>
        ELSE IF bad /= {}
        THEN /\ pc' = "ValueError"
             /\ cases' = cases \o collected
             /\ fs_reports' = ReportsAfterCollect(fs_reports, e.report, TRUE)
             /\ UNCHANGED ri
        ELSE /\ cases' = cases \o collected
             /\ fs_reports' = ReportsAfterCollect(fs_reports, e.report, FALSE)
             /\ ri' = ri + 1
             /\ UNCHANGED pc
  /\ UNCHANGED <<fs_flows, fs_shots, input, ci, base_start_ms, now_ms, results,
                 attachments, next_uuid, fvars, cvars, kvars>>

RECURSIVE SumTime(_)
SumTime(cs) == IF cs = <<>> THEN 0 ELSE Head(cs).time_sec + SumTime(Tail(cs))

\* what time.time() can read, in milliseconds
Clock == {100000, 100001}

\* lines 182-188: the early return, or the start of the timeline
StartEmit ==
  /\ pc = "collect"
  /\ ri > Len(REPORT_TO_FLOW_ORDER)
  /\ IF cases = <<>>
     THEN /\ pc' = "done"
          /\ UNCHANGED <<now_ms, base_start_ms, ci>>
     ELSE /\ \E t \in Clock :
               /\ now_ms' = t
               /\ base_start_ms' = t - Millis(SumTime(cases))
          /\ ci' = 1
          /\ pc' = "emit"
  /\ UNCHANGED <<fs_reports, fs_flows, fs_shots, input, ri, cases, results,
                 attachments, next_uuid, fvars, cvars, kvars>>

\* the reference to a copied screenshot put in the record
AttachmentRef(file) ==
  [name |-> "Screenshot (failure)", source |-> <<file.uuid, "-attachment", file.ext>>,
   type |-> file.type]

\* one iteration of the loop over cases
EmitCase ==
  /\ pc = "emit"
  /\ ci <= Len(cases)
  /\ LET case == cases[ci]
         step_names == steps_from_flow_yaml(fs_flows[case.flow_name])
         start_ms == base_start_ms
         stop_ms == base_start_ms + Millis(case.time_sec)
         uid == next_uuid
         failed_step_index == FailedStepIndex(step_names, case.status, case.status_details)
         step_objects == StepObjects(step_names, case, failed_step_index, start_ms)
         shot == ScreenshotOf(case, fs_shots, next_uuid + 1)
         onstep == shot /= <<>> /\ StepAttachmentGuard(failed_step_index, step_objects)
     IN /\ base_start_ms' = stop_ms
        /\ next_uuid' = next_uuid + (IF AttemptsScreenshot(case) THEN 2 ELSE 1)
        /\ attachments' = attachments \o shot
        /\ IF onstep /\ StepIndexRaises(step_objects, failed_step_index)
           THEN /\ pc' = "IndexError"
                /\ UNCHANGED <<results, ci>>
           ELSE /\ results' = Append(results,
                     ResultRecord(case, uid, start_ms, stop_ms,
                       IF onstep
                       THEN WithStepAttachment(step_objects, failed_step_index,
                                               AttachmentRef(shot[1]))
                       ELSE step_objects,
                       IF shot /= <<>> THEN <<AttachmentRef(shot[1])>> ELSE <<>>))
                /\ ci' = ci + 1
                /\ pc' = IF ci = Len(cases) THEN "done" ELSE "emit"
  /\ UNCHANGED <<fs_reports, fs_flows, fs_shots, input, ri, cases, now_ms,
                 fvars, cvars, kvars>>

----------------------------------------------------------------------------
(* The runs checked *)

\* test cases of the reports of a run
TcPassed == Testcase(Some(<<"L","o","g","i","n">>), None, None, Time(5), NoNode, NoNode)
TcFailedAttr == Testcase(None, Some(<<"t","2">>), Some(<<"F","A","I","L","U","R","E">>), Time(7), NoNode, NoNode)
TcFailedNode ==
  Testcase(Some(<<"T","a","p">>), None, Some(<<"F","A","I","L","U","R","E">>), Time(2011),
           Node(Some(<<"E","l","e","m","e","n","t"," ","\"","l","o","g","i","n","-","b","u","t","t","o","n","\""," ","n","o","t"," ","f","o","u","n","d">>), Some(<<"a","t"," ","s","t","e","p">>)), NoNode)
TcErrorNode ==
  Testcase(None, None, Some(<<"E","R","R","O","R">>), Time(9), NoNode,
           Node(None, Some(<<"A","s","s","e","r","t","i","o","n"," ","i","s"," ","f","a","l","s","e",":"," ","\"","W","e","l","c","o","m","e","\""," ","i","s"," ","v","i","s","i","b","l","e">>)))
TcBadTime == Testcase(Some(<<"B","a","d">>), None, None, BadTime, NoNode, NoNode)

\* what a report file can be when the run starts
ReportPool ==
  { Absent, Malformed,
    Xml("testsuites", <<>>, <<>>),
    Xml("testsuite", <<TcPassed>>, <<>>),
    Xml("testsuite", <<TcFailedAttr>>, <<>>),
    Xml("testsuites", <<>>, << <<TcFailedNode>>, <<TcPassed>> >>),
    Xml("testsuite", <<TcErrorNode, TcFailedNode>>, <<>>),
    Xml("testsuite", <<TcPassed, TcBadTime>>, <<>>) }

FlowNames == {REPORT_TO_FLOW_ORDER[k].flow : k \in 1..Len(REPORT_TO_FLOW_ORDER)}
MaestroDirs == {REPORT_TO_MAESTRO_DIR[r] : r \in ReportNames}

\* the flow file of each name, when it exists
FlowOf(flow_name) ==
  IF flow_name = "assets_test.yaml" THEN ScenarioFlow
  ELSE IF flow_name = "dashboard_test.yaml"
  THEN File(<< <<"-","-","-">>, <<"#"," ","O","p","e","n"," ","l","o","g","i","n">>, <<"-"," ","t","a","p","O","n",":"," ","i","d",":"," ","\"","l","o","g","i","n","-","b","u","t","t","o","n","\"">>,
               <<"-"," ","i","n","p","u","t","T","e","x","t",":"," ","h","e","l","l","o">> >>)
  ELSE File(<< <<"-","-","-">>, <<"-"," ","l","a","u","n","c","h","A","p","p",":">> >>)

ShotDir ==
  Dir(<< [name |-> "notes.txt", suffix |-> <<".","t","x","t">>, mtime |-> 9],
         [name |-> "a.PNG", suffix |-> <<".","P","N","G">>, mtime |-> 5],
         [name |-> "b.jpg", suffix |-> <<".","j","p","g">>, mtime |-> 7] >>)

PipeInit ==
  /\ fs_reports \in [ReportNames -> ReportPool]
  /\ input = fs_reports
  \* the flow files are all there or all missing, and so are the screenshots
  /\ \E there \in BOOLEAN :
       fs_flows = [f \in FlowNames |-> IF there THEN FlowOf(f) ELSE NoFile]
  /\ \E there \in BOOLEAN :
       fs_shots = [d \in MaestroDirs |-> IF there THEN ShotDir ELSE NoDir]
  /\ pc = "collect"
  /\ ri = 1
  /\ cases = <<>>
  /\ ci = 0
  /\ base_start_ms = 0
  /\ now_ms = 0
  /\ results = <<>>
  /\ attachments = <<>>
  /\ next_uuid = 1

PipeIdle ==
  /\ fs_reports = [r \in ReportNames |-> Absent]
  /\ input = fs_reports
  /\ fs_flows = [f \in FlowNames |-> NoFile]
  /\ fs_shots = [d \in MaestroDirs |-> NoDir]
  /\ pc = "idle"
  /\ ri = 1
  /\ cases = <<>>
  /\ ci = 0
  /\ base_start_ms = 0
  /\ now_ms = 0
  /\ results = <<>>
  /\ attachments = <<>>
  /\ next_uuid = 1

FlowIdle == flow_file = NoFile /\ flow_ret = <<>>

\* <testcase> elements the collector is run on, one at a time
StatusAttrs == { None, Some(<<>>), Some(<<"S","U","C","C","E","S","S">>), Some(<<"s","u","c","c","e","s","s">>),
                 Some(<<"F","A","I","L","U","R","E">>), Some(<<"E","R","R","O","R">>) }
MessageAttrs == { None, Some(<<>>), Some(<<" "," ">>), Some(<<"b","o","o","m">>), Some(<<" ","b","o","o","m"," ">>),
                  Some(<<"o","t","h","e","r">>) }
BodyTexts == { None, Some(<<"b","o","o","m">>), Some(<<"\n"," "," ","b","o","o","m","\n">>), Some(<<"t","r","a","c","e"," ","l","i","n","e">>), Some(<<" ">>) }
FailureNodes == {NoNode} \cup { Node(m, b) : m \in MessageAttrs, b \in BodyTexts }
ErrorNodes == { NoNode, Node(Some(<<"e","r","r">>), None), Node(None, Some(<<"e","r","r"," ","b","o","d","y">>)) }
Names == { <<Some(<<"L","o","g","i","n">>), None>>, <<None, Some(<<"i","d","1">>)>>, <<None, None>> }
Testcases ==
  { Testcase(n[1], n[2], st, t, f, e) :
      n \in Names, st \in StatusAttrs, t \in {NoTime, Time(3), BadTime},
      f \in FailureNodes, e \in ErrorNodes }

CaseIdle == tc_in = Testcase(None, None, None, NoTime, NoNode, NoNode) /\ tc_ret = <<>>

CaseInit ==
  /\ tc_in \in Testcases
  /\ tc_ret = <<>>

\* the body of the loop over suite.findall("testcase"), for tc_in
CallCollectCase ==
  /\ tc_ret = <<>>
  /\ tc_ret' = << [raised |-> TimeRaises(tc_in),
                   case |-> CollectCase("assets_report", "assets_test.yaml", tc_in)] >>
  /\ UNCHANGED <<tc_in, fvars, kvars, pvars>>

\* steps and failure details the correlator is run on
StepPool == { <<"L","a","u","n","c","h"," ","a","p","p"," ","(","c","l","e","a","r"," ","s","t","a","t","e",")">>, <<"T","a","p",":"," ","l","o","g","i","n","-","b","u","t","t","o","n">>, <<"A","s","s","e","r","t"," ","v","i","s","i","b","l","e",":"," ","W","e","l","c","o","m","e">> }
Fragments == { <<"\"","o","n","\"">>, <<"\"","W","e","l","c","o","m","e","\"">>, <<"\"","m","i","s","s","i","n","g","\"">>, <<" ","l","o","g","i","n","-","b","u","t","t","o","n","\""," ","i","s"," ">>, <<"\"">> }
StepSeqs == UNION { [1..n -> StepPool] : n \in 1..MaxSteps }
Messages == { Flatten(fs) : fs \in UNION { [1..n -> Fragments] : n \in 0..MaxParts } }
DetailsPool ==
  {NoDetails}
  \cup { [some |-> TRUE, message |-> m, trace |-> t] :
           m \in Messages, t \in { <<>>, <<"\"","l","o","g","i","n","-","b","u","t","t","o","n","\"">> } }

CorrIdle ==
  /\ corr_in = [step_names |-> <<>>, status |-> "passed", status_details |-> NoDetails]
  /\ corr_ret = <<>>

CorrInit ==
  /\ corr_in \in [step_names : StepSeqs, status : {"passed", "failed"},
                  status_details : DetailsPool]
  /\ corr_ret = <<>>

\* lines 202-216 on corr_in
CallCorrelate ==
  /\ corr_ret = <<>>
  /\ corr_ret' = << FailedStepIndex(corr_in.step_names, corr_in.status,
                                    corr_in.status_details) >>
  /\ UNCHANGED <<corr_in, fvars, cvars, pvars>>

Next == CollectReport \/ StartEmit \/ EmitCase
Init == PipeInit /\ FlowIdle /\ CaseIdle /\ CorrIdle
Spec == Init /\ [][Next]_vars

NextFlow == CallStepsFromFlowYaml
InitFlow == FlowInit /\ CaseIdle /\ CorrIdle /\ PipeIdle
SpecFlow == InitFlow /\ [][NextFlow]_vars

NextCase == CallCollectCase
InitCase == CaseInit /\ FlowIdle /\ CorrIdle /\ PipeIdle
SpecCase == InitCase /\ [][NextCase]_vars

NextCorr == CallCorrelate
InitCorr == CorrInit /\ FlowIdle /\ CaseIdle /\ PipeIdle
SpecCorr == InitCorr /\ [][NextCorr]_vars

----------------------------------------------------------------------------
(* Properties *)

\* every <testcase> of a document whatever the shape of the document
AllTestcases(doc) == doc.testcases \o Flatten(doc.suites)

\* the test cases of the reports the run started with: report order, then in-file order
GlobalTestcases ==
  Flatten([k \in 1..Len(REPORT_TO_FLOW_ORDER) |->
             AllTestcases(input[REPORT_TO_FLOW_ORDER[k].report])])

Crashed == pc \in {"ParseError", "ValueError", "IndexError"}

\* the time attribute of tc in whole milliseconds
DeclaredMs(tc) == IF tc.time.some THEN tc.time.ticks \div TicksPerMs ELSE 0

StepNames(r) == [k \in 1..Len(r.steps) |-> r.steps[k].name]

\* C1: a completed run has written one result record, each under its own
\* uuid, per test case of the report files that were present, and none of
\* those files is left; with no report file nothing is written and the run
\* does not fail.
C1_OneRecordPerTestcase ==
  /\ pc = "done" =>
       /\ Len(results) = Len(GlobalTestcases)
       /\ Cardinality({results[k].uuid : k \in 1..Len(results)}) = Len(GlobalTestcases)
       /\ \A r \in ReportNames : fs_reports[r].kind = "absent"
       /\ GlobalTestcases = <<>> => attachments = <<>>
  /\ (\A r \in ReportNames : input[r].kind = "absent") =>
       /\ ~Crashed
       /\ results = <<>>
       /\ attachments = <<>>

C1_Witness ==
  /\ pc = "done"
  /\ Len(results) >= 2
  /\ \E r \in ReportNames : input[r].kind = "absent"
  /\ \E r \in ReportNames : input[r].kind = "xml" /\ AllTestcases(input[r]) = <<>>

\* C2: a test case that has a <failure> or an <error> child is collected as
\* failed whatever its status attribute says.
C2_MarkerMeansFailed ==
  (tc_ret /= <<>> /\ ~tc_ret[1].raised /\ (tc_in.failure.present \/ tc_in.error.present))
    => tc_ret[1].case.status = "failed"

\* the statuses of the steps of record r around the index f
StepStatusesAround(r, f) ==
  \A i \in 0..(Len(r.steps) - 1) :
    r.steps[i + 1].status = (IF i < f THEN "passed" ELSE IF i = f THEN "failed" ELSE "skipped")

\* C3 as stated: in every failed record with steps, the steps before the
\* correlated index f are passed, step f is failed and carries the failure
\* detail, the steps after it are skipped, and no other step carries one.
C3_FailedStepCarriesDetail ==
  \A k \in 1..Len(results) :
    LET r == results[k]
        f == FailedStepIndex(StepNames(r), r.status, cases[k].status_details)
    IN (r.status = "failed" /\ Len(r.steps) >= 1) =>
         /\ 0 <= f /\ f < Len(r.steps)
         /\ StepStatusesAround(r, f)
         /\ r.steps[f + 1].statusDetails.some
         /\ r.steps[f + 1].statusDetails = cases[k].status_details
         /\ \A i \in 0..(Len(r.steps) - 1) : i /= f => ~r.steps[i + 1].statusDetails.some

\* C3 amended: as above, but step f carries the failure detail exactly when the
\* test has one, that is when a <failure> or <error> child was collected; a
\* test failed by its status attribute alone has no step with statusDetails.
C3_FailedStepCarriesDetailIfAny ==
  \A k \in 1..Len(results) :
    LET r == results[k]
        f == FailedStepIndex(StepNames(r), r.status, cases[k].status_details)
    IN (r.status = "failed" /\ Len(r.steps) >= 1) =>
         /\ 0 <= f /\ f < Len(r.steps)
         /\ StepStatusesAround(r, f)
         /\ r.steps[f + 1].statusDetails = cases[k].status_details
         /\ r.statusDetails = cases[k].status_details
         /\ \A i \in 0..(Len(r.steps) - 1) : i /= f => ~r.steps[i + 1].statusDetails.some

C3_Witness ==
  /\ \E k \in 1..Len(results) :
       /\ results[k].status = "failed"
       /\ Len(results[k].steps) = 3
       /\ results[k].steps[2].status = "failed"
       /\ results[k].steps[2].statusDetails.some
       /\ results[k].steps[3].status = "skipped"
  /\ \E k \in 1..Len(results) :
       /\ results[k].status = "failed"
       /\ Len(results[k].steps) >= 1
       /\ ~cases[k].status_details.some

\* C4: a test case whose flow file does not exist gets a record with an empty
\* steps list, and the run does not fail on it.
C4_AbsentFlowIsNoError ==
  /\ \A k \in 1..Len(results) :
       ~fs_flows[cases[k].flow_name].exists => results[k].steps = <<>>
  /\ (pc \in {"emit", "done", "IndexError"}
        /\ \A k \in 1..Len(cases) : ~fs_flows[cases[k].flow_name].exists)
       => /\ pc /= "IndexError"
          /\ pc = "done" => Len(results) = Len(cases)

RECURSIVE SumInts(_)
SumInts(xs) == IF xs = <<>> THEN 0 ELSE Head(xs) + SumInts(Tail(xs))

\* C5: the k-th record belongs to the k-th test case in report order then
\* in-file order, its window is as long as the declared duration, and it
\* starts where the window of the record before it stops.
C5_BackToBackWindows ==
  /\ Len(results) <= Len(GlobalTestcases)
  /\ \A k \in 1..Len(results) :
       /\ results[k].stop - results[k].start = DeclaredMs(GlobalTestcases[k])
       /\ k > 1 => results[k].start = results[k - 1].stop
  /\ SumInts([k \in 1..Len(results) |-> results[k].stop - results[k].start])
       = SumInts([k \in 1..Len(results) |-> DeclaredMs(GlobalTestcases[k])])

C5_Witness ==
  /\ pc = "done"
  /\ Len(results) >= 3
  /\ results[1].stop > results[1].start
  /\ results[2].stop > results[2].start
  /\ cases[1].report_name = cases[2].report_name
  /\ cases[2].report_name /= cases[3].report_name

\* C6: when a report file does not parse the run aborts having written
\* nothing and the file stays; a report file is deleted only once it has been
\* parsed and all its test cases are in the list.
C6_UnparsableReportAborts ==
  /\ (\E r \in ReportNames : input[r].kind = "malformed") =>
       /\ results = <<>>
       /\ attachments = <<>>
       /\ pc \in {"collect", "ParseError", "ValueError"}
  /\ pc = "ParseError" => fs_reports[REPORT_TO_FLOW_ORDER[ri].report].kind = "malformed"
  /\ \A k \in 1..Len(REPORT_TO_FLOW_ORDER) :
       LET r == REPORT_TO_FLOW_ORDER[k].report
       IN /\ input[r].kind = "malformed" => fs_reports[r] = input[r]
          /\ (input[r].kind = "xml" /\ fs_reports[r].kind = "absent") =>
               /\ k < ri
               /\ Cardinality({j \in 1..Len(cases) : cases[j].report_name = r})
                    = Len(AllTestcases(input[r]))

C6_Witness ==
  /\ pc = "ParseError"
  /\ ri = 2
  /\ cases /= <<>>
  /\ fs_reports[REPORT_TO_FLOW_ORDER[1].report].kind = "absent"

\* the step that line i of the file yields, in the returned list
StepOfLine(lines, i) ==
  flow_ret[1][Len(steps_from_flow_yaml(File(Take(lines, i - 1)))) + 1]

AfterSeparator(lines, i) == \E j \in 1..(i - 1) : lines[j] = <<"-","-","-">>

\* C7 as stated: the scenario flow yields the three steps with the tapped id.
C7_ScenarioAsStated ==
  (flow_ret /= <<>> /\ flow_file = ScenarioFlow) =>
    flow_ret[1] = << <<"L","a","u","n","c","h"," ","a","p","p"," ","(","c","l","e","a","r"," ","s","t","a","t","e",")">>, <<"T","a","p",":"," ","l","o","g","i","n","-","b","u","t","t","o","n">>,
                     <<"A","s","s","e","r","t"," ","v","i","s","i","b","l","e",":"," ","W","e","l","c","o","m","e">> >>

\* C7 amended: the scenario flow yields "Launch app (clear state)", "Tap",
\* "Assert visible: Welcome"; in general an assertVisible without inline value
\* is described with the plain id or text given on the next line, and a tapOn
\* without inline value is the bare "Tap" whatever the next line gives.
C7_ScenarioAsParsed ==
  /\ (flow_ret /= <<>> /\ flow_file = ScenarioFlow) =>
       flow_ret[1] = << <<"L","a","u","n","c","h"," ","a","p","p"," ","(","c","l","e","a","r"," ","s","t","a","t","e",")">>, <<"T","a","p">>, <<"A","s","s","e","r","t"," ","v","i","s","i","b","l","e",":"," ","W","e","l","c","o","m","e">> >>
  /\ (flow_ret /= <<>> /\ flow_file.exists) =>
       \A i \in 1..(Len(flow_file.lines) - 1) :
         \A f \in Fields :
           (AfterSeparator(flow_file.lines, i)
              /\ flow_file.lines[i + 1] = FieldLine(f.key, f.value)) =>
             /\ flow_file.lines[i] = <<"-"," ","a","s","s","e","r","t","V","i","s","i","b","l","e",":">> =>
                  StepOfLine(flow_file.lines, i) = <<"A","s","s","e","r","t"," ","v","i","s","i","b","l","e",":"," ">> \o f.value
             /\ flow_file.lines[i] = <<"-"," ","t","a","p","O","n",":">> =>
                  StepOfLine(flow_file.lines, i) = <<"T","a","p">>

C7_Witness ==
  /\ flow_ret /= <<>>
  /\ flow_file = ScenarioFlow
  /\ Len(flow_ret[1]) = 3

\* the quoted candidates of the failure text, none without failure detail
Candidates(status_details) ==
  IF status_details.some THEN FindAllQuoted(CorrelatedText(status_details)) ELSE <<>>

\* the candidates longer than 2 characters that some step contains
Matching(cands, step_names) ==
  {k \in 1..Len(cands) :
     /\ Len(cands[k]) > 2
     /\ \E i \in 1..Len(step_names) : Contains(cands[k], step_names[i])}

\* C8: for a failed test with steps the correlator selects the first step that
\* contains the first quoted candidate longer than 2 characters found in some
\* step, and the last step when there is no such candidate.
C8_FirstMatchingCandidate ==
  (corr_ret /= <<>> /\ corr_in.status = "failed" /\ corr_in.step_names /= <<>>) =>
    LET cands == Candidates(corr_in.status_details)
        good == Matching(cands, corr_in.step_names)
    IN IF good = {}
       THEN corr_ret[1] = Len(corr_in.step_names) - 1
       ELSE corr_ret[1] =
              MinOf({i \in 0..(Len(corr_in.step_names) - 1) :
                       Contains(cands[MinOf(good)], corr_in.step_names[i + 1])})

C8_Witness ==
  /\ corr_ret /= <<>>
  /\ corr_in.status = "failed"
  /\ Len(corr_in.step_names) = 2
  /\ LET cands == Candidates(corr_in.status_details)
         good == Matching(cands, corr_in.step_names)
     IN /\ Len(cands) >= 3
        /\ Len(cands[1]) <= 2
        /\ good /= {}
        /\ MinOf(good) = 3
        /\ corr_ret[1] = 0
        /\ \A i \in 1..2 : Contains(cands[3], corr_in.step_names[i])

\* the step windows of record r are contiguous from the start of the test
StepsContiguous(r) ==
  /\ r.steps[1].start = r.start
  /\ \A i \in 1..Len(r.steps) : r.steps[i].stop >= r.steps[i].start
  /\ \A i \in 2..Len(r.steps) : r.steps[i].start = r.steps[i - 1].stop

\* C9 as stated: the step windows of every record with steps are contiguous
\* from the start of the test and the last one stops at the stop of the test.
C9_StepsPartitionWindow ==
  \A k \in 1..Len(results) :
    LET r == results[k]
    IN Len(r.steps) >= 1 =>
         /\ StepsContiguous(r)
         /\ r.steps[Len(r.steps)].stop = r.stop

\* C9 amended: the step windows are contiguous from the start of the test and
\* all of the same length; the last one stops at or before the stop of the
\* test, short of it by the remainder of the duration in milliseconds divided
\* by the number of steps.
C9_StepsFallShortByRemainder ==
  \A k \in 1..Len(results) :
    LET r == results[k]
        K == Len(r.steps)
    IN K >= 1 =>
         /\ StepsContiguous(r)
         /\ \A i \in 1..K : r.steps[i].stop - r.steps[i].start = (r.stop - r.start) \div K
         /\ r.steps[K].stop = r.stop - ((r.stop - r.start) % K)

C9_Witness ==
  \E k \in 1..Len(results) :
    /\ Len(results[k].steps) = 3
    /\ results[k].steps[1].stop > results[k].steps[1].start
    /\ results[k].steps[3].stop < results[k].stop

\* C10: the message is the message attribute, else the body, else "Test
\* failed"; the trace is the body when the body differs from that message and
\* is empty otherwise, so the two are never the same non-empty text.
C10_TraceDiffersFromMessage ==
  (tc_ret /= <<>> /\ tc_ret[1].case.status_details.some) =>
    LET node == IF tc_in.failure.present THEN tc_in.failure ELSE tc_in.error
        m == Strip(OptOr(node.message, <<>>))
        b == Strip(OptOr(node.text, <<>>))
        d == tc_ret[1].case.status_details
    IN /\ d.message = (IF m /= <<>> THEN m ELSE IF b /= <<>> THEN b ELSE <<"T","e","s","t"," ","f","a","i","l","e","d">>)
       /\ d.trace = (IF b /= d.message THEN b ELSE <<>>)
       /\ ~(d.message = d.trace /\ d.message /= <<>>)

====
